---- MODULE Spec2Model ----
(***************************************************************************)
(* Model of the traversal engine of knee_scraper (src/src/lib.rs):         *)
(*   recursive_scrape  - Mode A, unconditional depth-first recursion       *)
(*   rec_scrape        - Mode B, phrase-gated, depth-bounded FIFO loop     *)
(* together with extract_links / normalize_link, which turn the hrefs of a *)
(* fetched page into the strings that both modes store.                    *)
(*                                                                         *)
(* URLs are TLA+ strings.  The part of URL syntax the model computes is:   *)
(* scheme "http"/"https", "://", a host, and a path of plain segments.     *)
(* Dot segments, queries, fragments and percent-encoding do not occur in   *)
(* the strings the model draws.                                            *)
(***************************************************************************)
EXTENDS Integers, Sequences, FiniteSets, TLC

VARIABLES
    mode,           \* "A": recursive_scrape is running, "B": rec_scrape
    url,            \* the url argument of the top-level call
    config,         \* rec_scrape's config argument: None or a ScraperConfig
    visited,        \* the HashSet<String> the caller passes by &mut
    stack,          \* Mode A: the chain of pending recursive_scrape futures
    pcA,            \* Mode A: "idle", "run", "done", "panicked"
    queue,          \* Mode B: the VecDeque<String> frontier
    current_depth,  \* Mode B: the run-wide depth counter
    current_url,    \* Mode B: the URL popped by the current iteration
    resp,           \* Mode B: what the awaited request produced
    pcB,            \* Mode B: "idle", "start", "loop", "fetch", "got", "done"
    visited0,       \* history: the visited set as the caller passed it in
    fetched,        \* history: how many GETs were issued for each URL
    inserted,       \* history: how many times visited.insert got each URL
    pages,          \* history: the hrefs of each body that text() returned
    agent,          \* the User-Agent header of the request in flight
    markup,         \* extract_links: the hrefs of the anchors, in document order
    doc_base,       \* extract_links: the base_url argument
    scanned,        \* extract_links: how many anchors the for loop has taken
    link_set,       \* extract_links: the HashSet<String> `links` being filled
    pcL,            \* extract_links: "idle", "scan", "done"
    expanded,       \* history, Mode B: the URLs whose links were enqueued
    enqueued,       \* history, Mode B: the URLs ever pushed on the queue
    pcRun,          \* run: "idle", "robots", "directories", "cookies",
                    \*      "scrape", "end"
    delay           \* run: the seconds random_delay slept, 0 before it

vars == <<mode, url, config, visited, stack, pcA, queue, current_depth,
          current_url, resp, pcB, visited0, fetched, inserted, pages, agent,
          markup, doc_base, scanned, link_set, pcL, expanded, enqueued,
          pcRun, delay>>

---------------------------------------------------------------------------
(* Bounds of the model                                                     *)

\* most hrefs a drawn page carries
MaxLinks == 2
\* largest max_depth a drawn ScraperConfig carries
MaxDepthCfg == 2

\* rec_scrape's default when no config is given
DefaultMaxDepth == 3

\* run calls random_delay(2, 5)
MinDelay == 2
MaxDelay == 5

\* Option::None for the config argument
None == [some |-> FALSE, follow_links |-> FALSE, max_depth |-> 0,
         user_agent |-> ""]

\* no User-Agent header: Option::None for user_agent
NoAgent == ""
NoResp == [kind |-> "none", success |-> FALSE, content |-> {}, hrefs |-> {}]

---------------------------------------------------------------------------
(* Strings                                                                 *)

\* str::starts_with
StartsWith(s, p) == Len(s) >= Len(p) /\ SubSeq(s, 1, Len(p)) = p

\* index of the first occurrence of the character c in s at or after i, or
\* Len(s) + 1 when there is none
RECURSIVE IndexOf(_, _, _)
IndexOf(s, c, i) ==
    IF i > Len(s) THEN Len(s) + 1
    ELSE IF SubSeq(s, i, i) = c THEN i
    ELSE IndexOf(s, c, i + 1)

\* index of the last occurrence of the character c in s at or before i, or 0
RECURSIVE LastIndexOf(_, _, _)
LastIndexOf(s, c, i) ==
    IF i < 1 THEN 0
    ELSE IF SubSeq(s, i, i) = c THEN i
    ELSE LastIndexOf(s, c, i - 1)

Drop(s, n) == SubSeq(s, n + 1, Len(s))

---------------------------------------------------------------------------
(* reqwest::Url (the url crate), as far as normalize_link and client.get   *)
(* use it                                                                  *)

UrlErr == [ok |-> FALSE, scheme |-> "", host |-> "", path |-> ""]

\* a host the parser accepts: not empty, and no unclosed IPv6 bracket
ValidHost(h) == h # "" /\ IndexOf(h, "[", 1) > Len(h)

\* authority and path of the text after "scheme://"
ParseAfterScheme(scheme, rest) ==
    LET slash == IndexOf(rest, "/", 1)
        host  == SubSeq(rest, 1, slash - 1)
        path  == Drop(rest, slash - 1)
    IN  IF ValidHost(host)
        THEN [ok |-> TRUE, scheme |-> scheme, host |-> host,
              path |-> IF path = "" THEN "/" ELSE path]
        ELSE UrlErr

\* Url::parse: an absolute URL, or an error (a string with no scheme is
\* ParseError::RelativeUrlWithoutBase)
UrlParse(s) ==
    IF StartsWith(s, "https://") THEN ParseAfterScheme("https", Drop(s, 8))
    ELSE IF StartsWith(s, "http://") THEN ParseAfterScheme("http", Drop(s, 7))
    ELSE UrlErr

\* Url::to_string
UrlToString(u) == u.scheme \o "://" \o u.host \o u.path

\* Url::join: the reference resolved against the base
UrlJoin(base, link) ==
    IF link = "" THEN base
    ELSE IF StartsWith(link, "//")
         THEN ParseAfterScheme(base.scheme, Drop(link, 2))
    ELSE IF StartsWith(link, "/")
         THEN [base EXCEPT !.path = link]
    ELSE [base EXCEPT !.path =
             SubSeq(base.path, 1, LastIndexOf(base.path, "/", Len(base.path)))
                 \o link]

\* normalize_link
normalize_link(link, base_url) ==
    IF StartsWith(link, "http")
    THEN link
    ELSE LET base == UrlParse(base_url)
         IN  IF base.ok
             THEN LET joined == UrlJoin(base, link)
                  IN  IF joined.ok THEN UrlToString(joined) ELSE ""
             ELSE link

\* extract_links: html.hrefs are the href attributes of the page's anchors
extract_links(html, base_url) ==
    { normalize_link(link, base_url) : link \in html.hrefs }

\* a matcher that accepts every body
ScrapeAlways(html, target_phrase) == TRUE

\* should_scrape_content: html.content are the phrases the body contains
should_scrape_content(html, target_phrase) == target_phrase \in html.content

---------------------------------------------------------------------------
(* The inputs and the web the runs are checked on                          *)

\* the url argument: the seed of the run
Seed == "https://s.com/"

\* the target_phrase argument of rec_scrape
Phrase == "needle"

\* href attributes a page may carry: two that resolve to pages of the site
\* (so that self links, cycles and shared targets exist), a relative file
\* name that begins with the letters "http", and a reference that no base
\* can resolve (its host is an unclosed IPv6 bracket)
Hrefs == {"/", "/a", "http-faq.html", "//["}

\* the bodies a successful text() may return
Bodies ==
    { [content |-> c, hrefs |-> h] :
        c \in {{}, {Phrase}},
        h \in { x \in SUBSET Hrefs : Cardinality(x) <= MaxLinks } }

\* the arguments of a direct call of extract_links: the hrefs of a document's
\* anchors (at most MaxLinks of them, repeats allowed) and a base URL, which
\* may lack a path or may not be a URL at all
LinkHrefs == {"/about", "https://other.com", "faq.html", "http-faq.html", "//["}
Bases == {"https://example.com", "https://s.com/docs/", "s.com"}
RECURSIVE SeqsUpTo(_, _)
SeqsUpTo(S, n) ==
    IF n = 0 THEN {<<>>}
    ELSE LET shorter == SeqsUpTo(S, n - 1)
         IN  shorter \cup { Append(q, x) : q \in shorter, x \in S }
Markups == SeqsUpTo(LinkHrefs, MaxLinks)

\* the visited sets a caller may pass in
InitialVisited == SUBSET {"https://s.com/", "https://s.com/a"}

\* the max_depth values (i32) and user_agent values a caller may choose
Depths == (0 - 1)..MaxDepthCfg
Agents == {NoAgent, "knee-bot/1.0"}

\* the list random_user_agent draws from
UserAgents ==
    {"Mozilla/5.0 (Windows NT 10.0; Win64; x64)...",
     "Mozilla/5.0 (Macintosh; Intel Mac OS X 10_15_7)...",
     "Mozilla/5.0 (iPhone; CPU iPhone OS 14_6 like Mac OS X)..."}

\* the config arguments a caller may pass in: none, or ScraperConfig::new
Configs ==
    {None} \cup [some : {TRUE}, follow_links : BOOLEAN,
                 max_depth : Depths, user_agent : Agents]

\* client.get(u) builds a request only from a string that parses as a URL
\* with a host; otherwise send() returns the builder's error
Requestable(u) == UrlParse(u).ok

\* every order in which a HashSet's iterator may yield the elements of S
RECURSIVE Orders(_)
Orders(S) ==
    IF S = {} THEN {<<>>}
    ELSE UNION { { <<x>> \o o : o \in Orders(S \ {x}) } : x \in S }

---------------------------------------------------------------------------
(* The call histories: a count per URL string                              *)

Range(q) == { q[i] : i \in DOMAIN q }

NoCalls == << >>
Calls(h, u) == IF u \in DOMAIN h THEN h[u] ELSE 0
Count(h, u) == IF u \in DOMAIN h THEN [h EXCEPT ![u] = @ + 1] ELSE h @@ (u :> 1)

\* the body r of u is kept, if r is one
Record(h, u, r) ==
    IF r.kind # "html" THEN h
    ELSE IF u \in DOMAIN h THEN [h EXCEPT ![u] = r.hrefs]
    ELSE h @@ (u :> r.hrefs)

---------------------------------------------------------------------------
(* The two operations on the visited set                                   *)

\* a membership test that never finds the URL
ContainsNever(vis, u) == FALSE

\* visited.contains(u)
Contains(vis, u) == u \in vis

\* an insert that is left out
InsertForgotten(vis, u) == vis

\* a set that is started afresh with each insert
InsertFresh(vis, u) == {u}

\* visited.insert(u)
Insert(vis, u) == vis \cup {u}

---------------------------------------------------------------------------
(* ScraperConfig and the defaults of rec_scrape                            *)

\* config.map_or(true, |c| c.follow_links())
follow_links == IF ~config.some THEN TRUE ELSE config.follow_links

\* the depth limit with a default of no depth at all
max_depth_default_zero == IF ~config.some THEN 0 ELSE config.max_depth

\* config.map_or(3, |c| c.max_depth())
max_depth == IF ~config.some THEN DefaultMaxDepth ELSE config.max_depth

\* config.and_then(|c| c.user_agent().cloned())
user_agent == IF ~config.some THEN NoAgent ELSE config.user_agent

\* the guard without its depth test
MayExpandNoLimit(follow, depth, limit) == follow

\* the guard with <= in place of <
MayExpandOffByOne(follow, depth, limit) == follow /\ depth <= limit

\* the guard of the expansion: follow_links && current_depth < max_depth
MayExpand(follow, depth, limit) == follow /\ depth < limit

\* the push without the visited test
EnqueueAll(q, links, vis) == q \o links

\* each link pushed unless the queue already holds it
EnqueueUnlessQueued(q, links, vis) ==
    q \o SelectSeq(links, LAMBDA l : \A i \in DOMAIN q : q[i] # l)

\* lines 644-648: each link in turn is pushed to the back unless visited
Enqueue(q, links, vis) == q \o SelectSeq(links, LAMBDA l : ~Contains(vis, l))

---------------------------------------------------------------------------
(* Init: a caller is about to run one of the two traversals                *)

Init ==
    /\ mode \in {"A", "B", "L", "R"}
    /\ url = Seed
    /\ config \in (IF mode = "B" THEN Configs ELSE {None})
    /\ visited \in (IF mode \in {"L", "R"} THEN {{}} ELSE InitialVisited)
    /\ visited0 = visited
    /\ stack = IF mode = "A"
               THEN << [url |-> url, pc |-> "entry", resp |-> NoResp,
                        todo |-> <<>>] >>
               ELSE <<>>
    /\ pcA = IF mode = "A" THEN "run" ELSE "idle"
    /\ queue = <<>>
    /\ current_depth = 0
    /\ current_url = ""
    /\ resp = NoResp
    /\ pcB = IF mode = "B" THEN "start" ELSE "idle"
    /\ fetched = NoCalls
    /\ inserted = NoCalls
    /\ pages = << >>
    /\ agent = NoAgent
    /\ markup \in (IF mode = "L" THEN Markups ELSE {<<>>})
    /\ doc_base \in (IF mode = "L" THEN Bases ELSE {""})
    /\ scanned = 0
    /\ link_set = {}
    /\ pcL = IF mode = "L" THEN "scan" ELSE "idle"
    /\ expanded = {}
    /\ enqueued = {}
    /\ pcRun = IF mode = "R" THEN "robots" ELSE "idle"
    /\ delay = 0

---------------------------------------------------------------------------
(* What the network can answer                                             *)

SendErr == [kind |-> "sendErr", success |-> FALSE, content |-> {}, hrefs |-> {}]

\* Mode A awaits send() and then text() without looking at the status:
\* the result is a transport error, a body-read error, or a body that came
\* with a success or a non-success status
ResponsesA(u) ==
    IF ~Requestable(u) THEN {SendErr}
    ELSE {SendErr}
         \cup { [kind |-> "textErr", success |-> TRUE, content |-> {}, hrefs |-> {}] }
         \cup { [kind |-> "html", success |-> ok, content |-> b.content,
                 hrefs |-> b.hrefs] : ok \in BOOLEAN, b \in Bodies }

\* Mode B reads the body only of a response with a success status
ResponsesB(u) ==
    IF ~Requestable(u) THEN {SendErr}
    ELSE {SendErr,
          [kind |-> "badStatus", success |-> FALSE, content |-> {}, hrefs |-> {}],
          [kind |-> "textErr", success |-> TRUE, content |-> {}, hrefs |-> {}]}
         \cup { [kind |-> "html", success |-> TRUE, content |-> b.content,
                 hrefs |-> b.hrefs] : b \in Bodies }

\* scrape_content either returns (early, or after whatever it managed to
\* write) or panics: every writeln! into content.txt is unwrapped
SinkOutcomes == {"returned", "panicked"}

---------------------------------------------------------------------------
(* Mode A: recursive_scrape.  stack[Len(stack)] is the call that runs; the *)
(* calls below it wait in their for loop for it to return.                 *)

Top == stack[Len(stack)]
Pop == SubSeq(stack, 1, Len(stack) - 1)
SetTop(f) == [stack EXCEPT ![Len(stack)] = f]
Frame(u) == [url |-> u, pc |-> "entry", resp |-> NoResp, todo |-> <<>>]

\* a call returns: its caller goes on, or the run is over
Return ==
    /\ stack' = Pop
    /\ pcA' = IF Len(stack) = 1 THEN "done" ELSE pcA

UnchangedB ==
    UNCHANGED <<queue, current_depth, current_url, resp, pcB, expanded,
                enqueued>>
UnchangedL == UNCHANGED <<markup, doc_base, scanned, link_set, pcL>>
UnchangedIn ==
    UNCHANGED <<mode, url, config, visited0, pcRun, delay>> /\ UnchangedL

\* the visited test made only after the page was requested
A_CheckAfterFetch ==
    /\ pcA = "run" /\ Top.pc = "entry"
    /\ Contains(visited, Top.url)
    /\ fetched' = Count(fetched, Top.url)
    /\ Return
    /\ UNCHANGED <<visited, inserted, pages>>
    /\ UNCHANGED agent
    /\ UnchangedB /\ UnchangedIn

\* lines 64-66: the URL is already visited, the call returns at once
A_AlreadyVisited ==
    /\ pcA = "run" /\ Top.pc = "entry"
    /\ Contains(visited, Top.url)
    /\ Return
    /\ UNCHANGED <<visited, fetched, inserted, pages>>
    /\ UNCHANGED agent
    /\ UnchangedB /\ UnchangedIn

\* lines 67-70: mark visited, then issue the GET
A_Visit ==
    /\ pcA = "run" /\ Top.pc = "entry"
    /\ ~Contains(visited, Top.url)
    /\ visited' = Insert(visited, Top.url)
    /\ inserted' = Count(inserted, Top.url)
    /\ fetched' = Count(fetched, Top.url)
    /\ stack' = SetTop([Top EXCEPT !.pc = "fetch"])
    /\ agent' \in UserAgents
    /\ UNCHANGED <<pcA, pages>>
    /\ UnchangedB /\ UnchangedIn

\* lines 70-72: send().await and text().await complete
A_Response ==
    /\ pcA = "run" /\ Top.pc = "fetch"
    /\ \E r \in ResponsesA(Top.url) :
          /\ stack' = SetTop([Top EXCEPT !.pc = "got", !.resp = r])
          /\ pages' = Record(pages, Top.url, r)
    /\ agent' = NoAgent
    /\ UNCHANGED <<pcA, visited, fetched, inserted>>
    /\ UnchangedB /\ UnchangedIn

\* lines 86-97: either await failed; the error is logged and the call returns
A_FetchFailed ==
    /\ pcA = "run" /\ Top.pc = "got"
    /\ Top.resp.kind \in {"sendErr", "textErr"}
    /\ Return
    /\ UNCHANGED <<visited, fetched, inserted, pages>>
    /\ UNCHANGED agent
    /\ UnchangedB /\ UnchangedIn

\* the links extracted only from a page that should_scrape_content accepts
A_ScrapeGated ==
    /\ pcA = "run" /\ Top.pc = "got"
    /\ Top.resp.kind = "html"
    /\ "returned" \in SinkOutcomes
    /\ \E order \in Orders(IF should_scrape_content(Top.resp, Phrase)
                           THEN extract_links(Top.resp, Top.url)
                           ELSE {}) :
          stack' = SetTop([Top EXCEPT !.pc = "iter", !.todo = order])
    /\ UNCHANGED <<pcA, visited, fetched, inserted, pages>>
    /\ UNCHANGED agent
    /\ UnchangedB /\ UnchangedIn

\* lines 73-79: the sink runs on the body, then the links are extracted
A_Scrape ==
    /\ pcA = "run" /\ Top.pc = "got"
    /\ Top.resp.kind = "html"
    /\ "returned" \in SinkOutcomes
    /\ \E order \in Orders(extract_links(Top.resp, Top.url)) :
          stack' = SetTop([Top EXCEPT !.pc = "iter", !.todo = order])
    /\ UNCHANGED <<pcA, visited, fetched, inserted, pages>>
    /\ UNCHANGED agent
    /\ UnchangedB /\ UnchangedIn

\* lines 75, 262-327: a write of the sink fails and its unwrap panics; the
\* panic unwinds every pending call
A_SinkPanic ==
    /\ pcA = "run" /\ Top.pc = "got"
    /\ Top.resp.kind = "html"
    /\ "panicked" \in SinkOutcomes
    /\ stack' = <<>>
    /\ pcA' = "panicked"
    /\ UNCHANGED <<visited, fetched, inserted, pages>>
    /\ UNCHANGED agent
    /\ UnchangedB /\ UnchangedIn

\* the call for a link started without being awaited: the caller goes on
\* with its next link and the call runs once its callers are through
A_RecurseDetached ==
    /\ pcA = "run" /\ Top.pc = "iter" /\ Top.todo # <<>>
    /\ ~Contains(visited, Head(Top.todo))
    /\ stack' = <<Frame(Head(Top.todo))>>
                   \o SetTop([Top EXCEPT !.todo = Tail(Top.todo)])
    /\ UNCHANGED <<pcA, visited, fetched, inserted, pages>>
    /\ UNCHANGED agent
    /\ UnchangedB /\ UnchangedIn

\* lines 80-83: the next link is unvisited, recurse into it
A_Recurse ==
    /\ pcA = "run" /\ Top.pc = "iter" /\ Top.todo # <<>>
    /\ ~Contains(visited, Head(Top.todo))
    /\ stack' = Append(SetTop([Top EXCEPT !.todo = Tail(Top.todo)]),
                       Frame(Head(Top.todo)))
    /\ UNCHANGED <<pcA, visited, fetched, inserted, pages>>
    /\ UNCHANGED agent
    /\ UnchangedB /\ UnchangedIn

\* lines 80-81: the next link is visited by now, the loop passes over it
A_SkipLink ==
    /\ pcA = "run" /\ Top.pc = "iter" /\ Top.todo # <<>>
    /\ Contains(visited, Head(Top.todo))
    /\ stack' = SetTop([Top EXCEPT !.todo = Tail(Top.todo)])
    /\ UNCHANGED <<pcA, visited, fetched, inserted, pages>>
    /\ UNCHANGED agent
    /\ UnchangedB /\ UnchangedIn

\* line 84: the for loop is over, the call returns
A_LoopEnd ==
    /\ pcA = "run" /\ Top.pc = "iter" /\ Top.todo = <<>>
    /\ Return
    /\ UNCHANGED <<visited, fetched, inserted, pages>>
    /\ UNCHANGED agent
    /\ UnchangedB /\ UnchangedIn

NextA ==
    \/ A_AlreadyVisited \/ A_Visit \/ A_Response \/ A_FetchFailed
    \/ A_Scrape \/ A_SinkPanic \/ A_Recurse \/ A_SkipLink \/ A_LoopEnd

---------------------------------------------------------------------------
(* Mode B: rec_scrape                                                      *)

UnchangedA == UNCHANGED <<stack, pcA>>

\* lines 604-611: the queue holds the seed, the depth counter is zero
B_Start ==
    /\ pcB = "start"
    /\ queue' = <<url>>
    /\ enqueued' = enqueued \cup {url}
    /\ UNCHANGED expanded
    /\ current_depth' = 0
    /\ pcB' = "loop"
    /\ UNCHANGED <<visited, current_url, resp, fetched, inserted, pages>>
    /\ UNCHANGED agent
    /\ UnchangedA /\ UnchangedIn

\* line 613: pop_front on an empty queue ends the loop and the call
B_Finish ==
    /\ pcB = "loop" /\ queue = <<>>
    /\ pcB' = "done"
    /\ UNCHANGED <<queue, current_depth, visited, current_url, resp,
                   fetched, inserted, pages>>
    /\ UNCHANGED agent
    /\ UNCHANGED <<expanded, enqueued>>
    /\ UnchangedA /\ UnchangedIn

\* a visited URL at the head of the queue ends the loop (break for continue)
B_SkipVisitedBreaks ==
    /\ pcB = "loop" /\ queue # <<>>
    /\ Contains(visited, Head(queue))
    /\ queue' = Tail(queue)
    /\ current_url' = Head(queue)
    /\ pcB' = "done"
    /\ UNCHANGED <<current_depth, visited, resp, fetched, inserted, pages>>
    /\ UNCHANGED agent
    /\ UNCHANGED <<expanded, enqueued>>
    /\ UnchangedA /\ UnchangedIn

\* lines 613-616: the popped URL is already visited
B_SkipVisited ==
    /\ pcB = "loop" /\ queue # <<>>
    /\ Contains(visited, Head(queue))
    /\ queue' = Tail(queue)
    /\ current_url' = Head(queue)
    /\ UNCHANGED <<pcB, current_depth, visited, resp, fetched, inserted, pages>>
    /\ UNCHANGED agent
    /\ UNCHANGED <<expanded, enqueued>>
    /\ UnchangedA /\ UnchangedIn

\* lines 613-627: the popped URL is marked visited and its GET is issued
B_Visit ==
    /\ pcB = "loop" /\ queue # <<>>
    /\ ~Contains(visited, Head(queue))
    /\ queue' = Tail(queue)
    /\ current_url' = Head(queue)
    /\ visited' = Insert(visited, Head(queue))
    /\ inserted' = Count(inserted, Head(queue))
    /\ fetched' = Count(fetched, Head(queue))
    /\ pcB' = "fetch"
    /\ agent' = user_agent
    /\ UNCHANGED <<current_depth, resp, pages>>
    /\ UNCHANGED <<expanded, enqueued>>
    /\ UnchangedA /\ UnchangedIn

\* lines 627-636: send().await completes and, on a success status, text()
B_Response ==
    /\ pcB = "fetch"
    /\ resp' \in ResponsesB(current_url)
    /\ pages' = Record(pages, current_url, resp')
    /\ pcB' = "got"
    /\ agent' = NoAgent
    /\ UNCHANGED <<queue, current_depth, visited, current_url, fetched,
                   inserted>>
    /\ UNCHANGED <<expanded, enqueued>>
    /\ UnchangedA /\ UnchangedIn

\* a failed fetch that ends the loop instead of continuing it
B_FetchFailedAborts ==
    /\ pcB = "got"
    /\ resp.kind \in {"sendErr", "badStatus", "textErr"}
    /\ pcB' = "done"
    /\ resp' = NoResp
    /\ UNCHANGED <<queue, current_depth, visited, current_url, fetched,
                   inserted, pages>>
    /\ UNCHANGED agent
    /\ UNCHANGED <<expanded, enqueued>>
    /\ UnchangedA /\ UnchangedIn

\* lines 629, 632, 635: no body to look at; on to the next URL
B_FetchFailed ==
    /\ pcB = "got"
    /\ resp.kind \in {"sendErr", "badStatus", "textErr"}
    /\ pcB' = "loop"
    /\ resp' = NoResp
    /\ UNCHANGED <<queue, current_depth, visited, current_url, fetched,
                   inserted, pages>>
    /\ UNCHANGED agent
    /\ UNCHANGED <<expanded, enqueued>>
    /\ UnchangedA /\ UnchangedIn

\* lines 651-655: the body does not contain the phrase
B_NoMatch ==
    /\ pcB = "got"
    /\ resp.kind = "html"
    /\ ~should_scrape_content(resp, Phrase)
    /\ pcB' = "loop"
    /\ resp' = NoResp
    /\ UNCHANGED <<queue, current_depth, visited, current_url, fetched,
                   inserted, pages>>
    /\ UNCHANGED agent
    /\ UNCHANGED <<expanded, enqueued>>
    /\ UnchangedA /\ UnchangedIn

\* lines 638-650: the phrase is found and the links may be followed
B_Expand ==
    /\ pcB = "got"
    /\ resp.kind = "html"
    /\ should_scrape_content(resp, Phrase)
    /\ MayExpand(follow_links, current_depth, max_depth)
    /\ \E links \in Orders(extract_links(resp, current_url)) :
          queue' = Enqueue(queue, links, visited)
    /\ enqueued' = enqueued \cup Range(SubSeq(queue', Len(queue) + 1, Len(queue')))
    /\ expanded' = expanded \cup {current_url}
    /\ current_depth' = current_depth + 1
    /\ pcB' = "loop"
    /\ resp' = NoResp
    /\ UNCHANGED <<visited, current_url, fetched, inserted, pages>>
    /\ UNCHANGED agent
    /\ UnchangedA /\ UnchangedIn

\* the counter incremented for every page that matches, followed or not
B_MatchOnlyCounts ==
    /\ pcB = "got"
    /\ resp.kind = "html"
    /\ should_scrape_content(resp, Phrase)
    /\ ~MayExpand(follow_links, current_depth, max_depth)
    /\ current_depth' = current_depth + 1
    /\ pcB' = "loop"
    /\ resp' = NoResp
    /\ UNCHANGED <<queue, visited, current_url, fetched, inserted, pages>>
    /\ UNCHANGED agent
    /\ UNCHANGED <<expanded, enqueued>>
    /\ UnchangedA /\ UnchangedIn

\* lines 638-642: the phrase is found but the links are not followed
B_MatchOnly ==
    /\ pcB = "got"
    /\ resp.kind = "html"
    /\ should_scrape_content(resp, Phrase)
    /\ ~MayExpand(follow_links, current_depth, max_depth)
    /\ pcB' = "loop"
    /\ resp' = NoResp
    /\ UNCHANGED <<queue, current_depth, visited, current_url, fetched,
                   inserted, pages>>
    /\ UNCHANGED agent
    /\ UNCHANGED <<expanded, enqueued>>
    /\ UnchangedA /\ UnchangedIn

NextB ==
    \/ B_Start \/ B_Finish \/ B_SkipVisited \/ B_Visit \/ B_Response
    \/ B_FetchFailed \/ B_NoMatch \/ B_Expand \/ B_MatchOnly

---------------------------------------------------------------------------
(* ScraperConfig's setters, which a caller may use before the run begins    *)

UnchangedRun ==
    UNCHANGED <<mode, url, visited, visited0, stack, pcA, queue, current_depth,
                current_url, resp, pcB, fetched, inserted, pages, agent,
                expanded, enqueued, pcRun, delay>>

set_follow_links ==
    /\ pcB = "start" /\ config.some
    /\ \E follow \in BOOLEAN : config' = [config EXCEPT !.follow_links = follow]
    /\ UnchangedRun /\ UnchangedL

\* max_depth is an i32 and is stored as given
set_max_depth ==
    /\ pcB = "start" /\ config.some
    /\ \E depth \in Depths : config' = [config EXCEPT !.max_depth = depth]
    /\ UnchangedRun /\ UnchangedL

set_user_agent ==
    /\ pcB = "start" /\ config.some
    /\ \E user_agent_arg \in Agents :
           config' = [config EXCEPT !.user_agent = user_agent_arg]
    /\ UnchangedRun /\ UnchangedL

NextConfig == set_follow_links \/ set_max_depth \/ set_user_agent

---------------------------------------------------------------------------
(* extract_links called on its own: the for loop over the anchors with an   *)
(* href, one normalize_link and one insert per anchor                       *)

L_Anchor ==
    /\ pcL = "scan" /\ scanned < Len(markup)
    /\ scanned' = scanned + 1
    /\ link_set' = link_set \cup {normalize_link(markup[scanned + 1], doc_base)}
    /\ UNCHANGED <<markup, doc_base, pcL, config>>
    /\ UnchangedRun

L_Return ==
    /\ pcL = "scan" /\ scanned = Len(markup)
    /\ pcL' = "done"
    /\ UNCHANGED <<markup, doc_base, scanned, link_set, config>>
    /\ UnchangedRun

NextL == L_Anchor \/ L_Return

---------------------------------------------------------------------------
(* run: the three probes of the site, the recursive traversal on a fresh    *)
(* visited set, then one random_delay                                       *)

UnchangedTraversal ==
    UNCHANGED <<mode, url, config, visited, visited0, queue, current_depth,
                current_url, resp, pcB, fetched, inserted, pages, agent,
                expanded, enqueued>>

\* the probes issue their own requests and print; none of them touches the
\* visited set
R_FetchRobotsTxt ==
    /\ pcRun = "robots"
    /\ pcRun' = "directories"
    /\ UNCHANGED <<stack, pcA, delay>>
    /\ UnchangedTraversal /\ UnchangedL

R_CheckOpenDirectories ==
    /\ pcRun = "directories"
    /\ pcRun' = "cookies"
    /\ UNCHANGED <<stack, pcA, delay>>
    /\ UnchangedTraversal /\ UnchangedL

R_FetchWithCookies ==
    /\ pcRun = "cookies"
    /\ pcRun' = "scrape"
    /\ UNCHANGED <<stack, pcA, delay>>
    /\ UnchangedTraversal /\ UnchangedL

\* line 535: the call of recursive_scrape, whose steps are those of Mode A
R_RecursiveScrape ==
    /\ pcRun = "scrape" /\ pcA = "idle"
    /\ stack' = <<Frame(url)>>
    /\ pcA' = "run"
    /\ UNCHANGED <<pcRun, delay>>
    /\ UnchangedTraversal /\ UnchangedL

\* random_delay: rand % (max_secs - min_secs + 1) + min_secs
random_delay(min_secs, max_secs) == min_secs..max_secs

\* a delay taken while a request of the traversal is in flight
R_RandomDelayPerRequest ==
    /\ pcRun = "scrape" /\ pcA = "run" /\ Top.pc = "fetch"
    /\ delay' \in random_delay(MinDelay, MaxDelay)
    /\ UNCHANGED <<stack, pcA, pcRun>>
    /\ UnchangedTraversal /\ UnchangedL

\* line 538: recursive_scrape has returned, run sleeps once and returns
R_RandomDelay ==
    /\ pcRun = "scrape" /\ pcA = "done"
    /\ delay' \in random_delay(MinDelay, MaxDelay)
    /\ pcRun' = "end"
    /\ UNCHANGED <<stack, pcA>>
    /\ UnchangedTraversal /\ UnchangedL

NextRun ==
    \/ R_FetchRobotsTxt \/ R_CheckOpenDirectories \/ R_FetchWithCookies
    \/ R_RecursiveScrape \/ R_RandomDelay

---------------------------------------------------------------------------
Next == NextA \/ NextB \/ NextConfig \/ NextL \/ NextRun

Spec == Init /\ [][Next]_vars

---------------------------------------------------------------------------
(* Vocabulary of the properties                                            *)

\* an absolute URL: scheme, host and path
IsAbsolute(u) == UrlParse(u).ok

\* the links of the body that was read for u; none when no body was read
LinksOf(u) ==
    IF u \in DOMAIN pages THEN { normalize_link(h, u) : h \in pages[u] } ELSE {}

\* the URLs reachable from the set S through the links of the bodies read
RECURSIVE ReachableFrom(_)
ReachableFrom(S) ==
    LET T == S \cup UNION { LinksOf(u) : u \in S }
    IN  IF T = S THEN S ELSE ReachableFrom(T)

\* the response at hand in Mode A is a failure: an error of send() or of
\* text(), or a non-success status
FailedA(r) == r.kind \in {"sendErr", "textErr"} \/ ~r.success

\* the response at hand in Mode B is a body that contains the phrase
MatchedB == pcB = "got" /\ resp.kind = "html" /\ Phrase \in resp.content

---------------------------------------------------------------------------
(* C1: in both modes a run issues at most one GET for each URL string and  *)
(* calls visited.insert at most once for each URL string.                  *)
C1_AtMostOnce ==
    /\ \A u \in DOMAIN fetched : fetched[u] <= 1
    /\ \A u \in DOMAIN inserted : inserted[u] <= 1

\* a page links back to the seed, which was fetched once: the loop of the
\* nested call is about to pass over it
C1_Witness ==
    /\ pcA = "run" /\ Len(stack) = 2
    /\ Top.pc = "iter" /\ Top.todo # <<>> /\ Head(Top.todo) = url
    /\ Calls(fetched, url) = 1 /\ Calls(inserted, url) = 1

(* C2: recursive_scrape terminates on every finite link graph, and when it *)
(* has ended every URL reachable from the seed is in the visited set and   *)
(* was visited by the run no more than once.                               *)
C2_EndsWithAllReachableVisited ==
    pcA \in {"done", "panicked"} =>
        \A u \in ReachableFrom({url}) :
            u \in visited /\ Calls(inserted, u) <= 1 /\ Calls(fetched, u) <= 1

(* C3: whenever a call recursive_scrape(u, ..) returns, u is in the        *)
(* visited set, whatever its fetch produced.                               *)
C3_VisitedOnReturn ==
    [][ (pcA = "run" /\ pcA' # "panicked" /\ Len(stack') < Len(stack))
            => Top.url \in visited' ]_vars

\* the top-level call has returned after a failed fetch of a seed that the
\* caller had not visited
C3_Witness ==
    /\ pcA = "done" /\ url \notin visited0 /\ url \in visited
    /\ Calls(fetched, url) = 1 /\ url \notin DOMAIN pages

(* C4: with max_depth = 0 rec_scrape never adds a link to the queue after  *)
(* the seed and fetches no URL but the seed; it fetches the seed once,     *)
(* unless the caller's visited set holds the seed already.                 *)
C4_ZeroDepth ==
    (mode = "B" /\ max_depth = 0) =>
        /\ Len(queue) <= 1
        /\ \A i \in DOMAIN queue : queue[i] = url
        /\ DOMAIN fetched \subseteq {url}
        /\ pcB = "done" =>
              Calls(fetched, url) = (IF url \in visited0 THEN 0 ELSE 1)

\* as claimed: exactly the seed is fetched
C4_ExactlySeedFetched ==
    (mode = "B" /\ max_depth = 0 /\ pcB = "done") =>
        (DOMAIN fetched = {url} /\ fetched[url] = 1)

\* a matching page with an unvisited link is at hand, links are followed,
\* and the limit is zero
C4_Witness ==
    /\ MatchedB /\ max_depth = 0 /\ follow_links
    /\ \E l \in extract_links(resp, current_url) : l \notin visited

(* C5: processing a body that does not contain the phrase leaves the queue *)
(* and the depth counter as they are.                                      *)
C5_NoMatchNoEnqueue ==
    [][ (pcB = "got" /\ resp.kind = "html" /\ Phrase \notin resp.content)
            => (queue' = queue /\ current_depth' = current_depth) ]_vars

\* a body without the phrase, with an unvisited link, while expansion would
\* be allowed
C5_Witness ==
    /\ pcB = "got" /\ resp.kind = "html" /\ Phrase \notin resp.content
    /\ follow_links /\ current_depth < max_depth
    /\ \E l \in extract_links(resp, current_url) : l \notin visited

(* C6: a transport error, a non-success status or a body-read error adds   *)
(* nothing to the queue, leaves the depth counter, and the loop goes on:   *)
(* the call returns only with the queue empty.                             *)
C6_FailureSkipsOnlyThisUrl ==
    /\ [][ (pcB = "got" /\ resp.kind \in {"sendErr", "badStatus", "textErr"})
              => (queue' = queue /\ current_depth' = current_depth
                  /\ pcB' = "loop") ]_vars
    /\ [](pcB = "done" => queue = <<>>)

\* a non-success status arrives while other URLs wait in the queue
C6_Witness ==
    /\ pcB = "got" /\ resp.kind = "badStatus" /\ queue # <<>>

(* C7: in recursive_scrape a failed fetch (transport error, body-read      *)
(* error or non-success status) makes the call return without extracting   *)
(* links, and its caller goes on with its remaining links.                 *)
C7_FailureStopsExpansion ==
    [][ (pcA = "run" /\ Top.pc = "got" /\ FailedA(Top.resp))
            => (stack' = Pop /\ pcA' # "panicked") ]_vars

(* C8: a matching body, with follow_links set and the depth counter below  *)
(* max_depth, appends every extracted link that is not visited to the      *)
(* queue and then adds one to the depth counter.                           *)
C8_ExpandEnqueuesUnvisited ==
    [][ (MatchedB /\ follow_links /\ current_depth < max_depth)
            => /\ current_depth' = current_depth + 1
               /\ \E added \in Orders(extract_links(resp, current_url) \ visited) :
                     queue' = queue \o added ]_vars

\* such a body links to its own page (visited) and to an unvisited one
C8_Witness ==
    /\ MatchedB /\ follow_links /\ current_depth < max_depth
    /\ current_url \in extract_links(resp, current_url)
    /\ \E l \in extract_links(resp, current_url) : l \notin visited

(* C9: a matching body, with follow_links unset or the depth counter at    *)
(* max_depth, adds nothing to the queue and leaves the depth counter; the  *)
(* loop goes on and the call returns only with the queue empty.            *)
C9_MatchWithoutExpansion ==
    /\ [][ (MatchedB /\ (~follow_links \/ current_depth >= max_depth))
              => (queue' = queue /\ current_depth' = current_depth
                  /\ pcB' = "loop") ]_vars
    /\ [](pcB = "done" => Len(queue) = 0)

\* the depth limit was reached by expanding, and a matching body with an
\* unvisited link arrives while another URL waits in the queue
C9_Witness ==
    /\ MatchedB /\ follow_links /\ max_depth > 0 /\ current_depth = max_depth
    /\ queue # <<>>
    /\ \E l \in extract_links(resp, current_url) : l \notin visited

(* C10: every string in the visited set or in the queue is an absolute URL *)
C10_StoredUrlsAbsolute ==
    \A u \in visited \cup Range(queue) : IsAbsolute(u)

---------------------------------------------------------------------------
(* Link extraction and the content sink                                    *)

\* a link that is a URL on its own or that can be joined onto the base
Resolves(link, base_url) ==
    \/ IsAbsolute(link)
    \/ /\ UrlParse(base_url).ok
       /\ UrlJoin(UrlParse(base_url), link).ok

\* the link joined onto the base
Joined(link, base_url) == UrlToString(UrlJoin(UrlParse(base_url), link))

\* C11: extract_links drops a malformed link silently: an href that cannot
\* be resolved to a URL contributes no element to the returned set, which
\* holds the links of the other hrefs only (stated for a base that is a URL).
C11_MalformedDropped ==
    (pcL = "done" /\ UrlParse(doc_base).ok) =>
        link_set = { normalize_link(h, doc_base) :
                        h \in { g \in Range(markup) : Resolves(g, doc_base) } }

\* C12: extract_links returns the deduplicated set of normalize_link(h, base)
\* over the hrefs, where an already absolute link comes back unchanged
\* whatever the base is and a relative link comes back joined onto the base
\* (stated for documents all of whose hrefs resolve).
C12_AbsoluteUnchangedRelativeJoined ==
    (pcL = "done" /\ \A h \in Range(markup) : Resolves(h, doc_base)) =>
        link_set = { IF IsAbsolute(h) THEN h ELSE Joined(h, doc_base) :
                        h \in Range(markup) }

\* C13: a failure of the content sink is not fatal in Mode A: whenever the
\* sink is called for a page that was read, the traversal goes on to extract
\* and iterate the page's links and never aborts.
C13_SinkFailureNotFatal ==
    [][(pcA = "run" /\ Top.pc = "got" /\ Top.resp.kind = "html") =>
          /\ pcA' = "run"
          /\ Len(stack') = Len(stack)
          /\ stack'[Len(stack')].pc = "iter"
          /\ Range(stack'[Len(stack')].todo)
                = extract_links(Top.resp, Top.url)]_vars

---------------------------------------------------------------------------
(* The visited set and the configuration                                   *)

\* C14: in both modes the visited set only grows during a run: no step
\* removes a URL from it, so a URL once visited stays visited.
C14_VisitedMonotone == [][visited \subseteq visited']_vars

\* a run that began with a visited URL and has added two more
C14_Witness ==
    /\ visited0 # {}
    /\ visited0 \subseteq visited
    /\ Cardinality(visited \ visited0) >= 2

C16_MaxDepthNonNegative ==
    (mode = "B" /\ pcB \notin {"idle", "start"}) => max_depth >= 0

---------------------------------------------------------------------------
(* The shape of the two traversals                                         *)

\* C17: recursive_scrape called on a URL that is already in the visited set
\* is a no-op: the call returns at once, no request is issued, no body is
\* read for the sink or for link extraction, and the visited set is
\* unchanged.
C17_VisitedCallIsNoOp ==
    [][(pcA = "run" /\ Top.pc = "entry" /\ Top.url \in visited) =>
          /\ stack' = Pop
          /\ UNCHANGED <<visited, fetched, inserted, pages>>]_vars

\* the run on a seed that the caller's set already held has returned
C17_Witness ==
    /\ pcA = "done"
    /\ url \in visited0
    /\ fetched = NoCalls /\ pages = << >>
    /\ visited = visited0

\* C18: the frontier of rec_scrape is first in, first out and may hold a URL
\* more than once: a URL is taken from the front and links are added at the
\* back; taking a URL that is already visited issues no request and changes
\* neither the visited set, the rest of the frontier, nor the depth counter.
C18_FifoLazyDedup ==
    [][/\ (pcB = "loop" /\ queue # <<>>) =>
             /\ queue' = Tail(queue)
             /\ current_url' = Head(queue)
             /\ Head(queue) \in visited =>
                   /\ pcB' = "loop"
                   /\ UNCHANGED <<visited, current_depth, fetched, inserted>>
       /\ pcB = "got" =>
             /\ Len(queue') >= Len(queue)
             /\ SubSeq(queue', 1, Len(queue)) = queue]_vars

\* the loop is about to take a URL that was put on the frontier before it
\* was visited, with more of the frontier behind it
C18_Witness ==
    /\ pcB = "loop" /\ Len(queue) >= 2
    /\ Head(queue) \in visited \ visited0

\* C19: recursive_scrape is depth-first and sequential: a caller waits in
\* its loop until the call for its current link has returned, so all of the
\* requests below one link are issued before the next link is taken; a
\* request is issued only by the innermost call, and at most one request is
\* in flight (a caller's frame changes under a running call only when a
\* panic unwinds the whole run).
C19_DepthFirstSequential ==
    /\ [](pcA = "run" =>
             /\ \A i \in 1..(Len(stack) - 1) : stack[i].pc = "iter"
             /\ Cardinality({ i \in DOMAIN stack : stack[i].pc = "fetch" }) <= 1)
    /\ [][pcA = "run" =>
             /\ pcA' # "panicked" =>
                   \A i \in 1..(Len(stack) - 1) :
                      i <= Len(stack') /\ stack'[i] = stack[i]
             /\ fetched' # fetched =>
                   /\ Top.pc = "entry"
                   /\ fetched' = Count(fetched, Top.url)]_vars

\* the request for one link is in flight while its caller still holds an
\* unvisited link to take next
C19_Witness ==
    /\ pcA = "run" /\ Len(stack) >= 2
    /\ Top.pc = "fetch"
    /\ stack[Len(stack) - 1].todo # <<>>
    /\ Head(stack[Len(stack) - 1].todo) \notin visited

\* C20: recursive_scrape expands every page it has read, whatever the page
\* contains: all of the page's links are iterated, and a run that began with
\* an empty visited set and returns leaves the visited set equal to the set
\* of URLs reachable from the seed through the links of the bodies read.
C20_ExpandsAllReachable ==
    /\ []((pcA = "done" /\ visited0 = {}) => visited = ReachableFrom({url}))
    /\ [][(pcA = "run" /\ Top.pc = "got" /\ Top.resp.kind = "html"
              /\ pcA' = "run") =>
             Range(stack'[Len(stack)].todo)
                = extract_links(Top.resp, Top.url)]_vars

\* a run from an empty set has returned with the seed, a page it links to
\* and a link of that page visited
C20_Witness ==
    /\ pcA = "done" /\ visited0 = {}
    /\ Cardinality(visited) >= 3
    /\ visited = ReachableFrom({url})

---------------------------------------------------------------------------
(* The depth counter and the politeness delay                              *)

\* C21: the depth counter of rec_scrape is one counter for the whole run:
\* it always equals the number of pages whose links have been enqueued so
\* far, it goes up by one with each such page, and no other step changes it.
C21_DepthCountsExpansions ==
    /\ [](mode = "B" => current_depth = Cardinality(expanded))
    /\ [][current_depth' # current_depth =>
             /\ MatchedB
             /\ current_url \notin expanded
             /\ expanded' = expanded \cup {current_url}
             /\ current_depth' = current_depth + 1]_vars

\* two pages have been expanded although every URL of the frontier's history
\* is the seed or a link of the seed: the counter is 2, the deepest level 1
C21_Witness ==
    /\ mode = "B"
    /\ current_depth = 2
    /\ Cardinality(expanded) = 2
    /\ enqueued \subseteq {url} \cup LinksOf(url)

---------------------------------------------------------------------------
(* The bounds of a Mode B run                                              *)

Max(a, b) == IF a >= b THEN a ELSE b

\* the URLs within n links of the set S, through the bodies read; none for
\* a negative n
RECURSIVE Within(_, _)
Within(S, n) ==
    IF n < 0 THEN {}
    ELSE IF n = 0 THEN S
    ELSE Within(S \cup UNION { LinksOf(u) : u \in S }, n - 1)

\* the URLs that this step pushes on the back of the queue
PushedNow ==
    IF Len(queue') > Len(queue)
    THEN Range(SubSeq(queue', Len(queue) + 1, Len(queue')))
    ELSE {}

\* C23: while rec_scrape runs the depth counter never exceeds max_depth and
\* at most max(max_depth, 0) pages are expanded; when it has returned the
\* frontier is empty and every URL that was ever enqueued, the seed
\* included, is in the visited set.
C23_BoundedRunEndsVisited ==
    (mode = "B" /\ pcB \notin {"idle", "start"}) =>
        /\ current_depth <= max_depth
        /\ Cardinality(expanded) <= Max(max_depth, 0)
        /\ pcB = "done" => queue = <<>> /\ enqueued \subseteq visited

\* C24: in a run of rec_scrape that began with an empty visited set every
\* URL that is fetched lies within max_depth links of the seed.
C24_FetchedWithinMaxDepth ==
    (mode = "B" /\ visited0 = {}) =>
        \A u \in DOMAIN fetched : u \in Within({url}, max_depth)

\* C25 as stated: every URL is checked against the visited set at the moment
\* it is put on the frontier, so a URL already visited at that moment is
\* never pushed, and no URL of the caller's visited set is fetched.
C25_EveryPushChecked ==
    /\ [][\A u \in PushedNow : u \notin visited]_vars
    /\ [](\A u \in visited0 : Calls(fetched, u) = 0)

\* C25 amended: every link taken from a page is checked against the visited
\* set at the moment it is pushed, so the page itself and the URLs of the
\* caller's visited set are not pushed; the seed alone is pushed unchecked,
\* at the start; a URL already in the visited set is never requested, so no
\* URL of the caller's set is fetched in the run.
C25_LinksCheckedSeedUnchecked ==
    /\ [][(mode = "B" /\ pcB # "start") =>
             \A u \in PushedNow : u \notin visited]_vars
    /\ [][(mode = "B" /\ pcB = "start" /\ queue' # queue) =>
             queue' = <<url>>]_vars
    /\ [][mode = "B" =>
             \A u \in visited : Calls(fetched', u) = Calls(fetched, u)]_vars
    /\ [](\A u \in visited0 : Calls(fetched, u) = 0)

\* the seed has been expanded; it links to itself and to a URL of the
\* caller's visited set, and nothing was pushed
C25_Witness ==
    /\ mode = "B" /\ pcB = "loop"
    /\ visited0 = {"https://s.com/a"}
    /\ expanded = {url}
    /\ LinksOf(url) = {url, "https://s.com/a"}
    /\ queue = <<>> /\ enqueued = {url}

====
